---- MODULE Spec2Model ----
(***************************************************************************)
(* State-machine model of src/src/QuizPlatform.jsx: the QuizPlatform       *)
(* component (nine useState cells, the timer effect, the save-history      *)
(* effect, the three handlers) and the IndexedDB helpers openDB and        *)
(* saveQuizHistory.                                                        *)
(*                                                                         *)
(* One action is one event of the single-threaded event loop: a click, a   *)
(* change of the text input, the one-second timeout firing, the timer      *)
(* effect's expiry branch, or one callback of a pending IndexedDB request. *)
(* Every action includes the re-render that follows it and the             *)
(* save-history effect of that render (SaveHistoryEffect).                 *)
(*                                                                         *)
(* Scheduling of effects: a render's passive effects are flushed before    *)
(* the next event is handled.  The render that shows timer = 0 on an open  *)
(* question therefore is followed by the expiry branch of the timer effect *)
(* (TimerExpired) before any click is handled (EffectsFlushed).            *)
(*                                                                         *)
(* Strings the code operates on (answers) are sequences of one-character   *)
(* strings, so that trim() and toLowerCase() are computed.  The field      *)
(* `timestamp` of a history record (wall clock) is not modelled.           *)
(***************************************************************************)
EXTENDS Integers, Sequences, FiniteSets, TLC

VARIABLES
    currentQuestion,    \* useState(0)      index into quizData, 0-based
    feedback,           \* useState("")
    answeredCorrectly,  \* useState(false)
    score,              \* useState(0)
    attempts,           \* useState([])     the attempt log
    currentAttempt,     \* useState(0)
    timer,              \* useState(30)
    quizFinished,       \* useState(false)
    textAnswer,         \* useState("")     free-text input buffer
    saves,              \* saveQuizHistory calls in flight: <<[history, pc]>>
    db,                 \* object store "quizHistory": the records added
    saveCalls,          \* number of saveQuizHistory(history) calls so far
    alerts,             \* number of Swal.fire success confirmations
    errors,             \* the console.error lines, in order
    userActions         \* submissions, skips and restarts so far (bounded by MaxUserActions)

vars == <<currentQuestion, feedback, answeredCorrectly, score, attempts,
          currentAttempt, timer, quizFinished, textAnswer,
          saves, db, saveCalls, alerts, errors, userActions>>

session == <<currentQuestion, feedback, answeredCorrectly, score, attempts,
             currentAttempt, timer, quizFinished, textAnswer>>

store == <<saves, db, saveCalls, alerts, errors>>

-----------------------------------------------------------------------------
(* Bounds of the model *)

MaxUserActions == 2     \* answers submitted, skips and restarts in one run

(* Program constants *)

TimerStart == 30

-----------------------------------------------------------------------------
(* Strings *)

UpperChars == <<"A","B","C","D","E","F","G","H","I","J","K","L","M",
                "N","O","P","Q","R","S","T","U","V","W","X","Y","Z">>
LowerChars == <<"a","b","c","d","e","f","g","h","i","j","k","l","m",
                "n","o","p","q","r","s","t","u","v","w","x","y","z">>

WhiteSpace == {" ", "\t", "\n"}

LowerChar(c) ==
    IF \E i \in 1..Len(UpperChars) : UpperChars[i] = c
    THEN LowerChars[CHOOSE i \in 1..Len(UpperChars) : UpperChars[i] = c]
    ELSE c

\* String.prototype.toLowerCase
toLowerCase(s) == [i \in 1..Len(s) |-> LowerChar(s[i])]

\* String.prototype.trim
trim(s) ==
    LET keep == {i \in 1..Len(s) : s[i] \notin WhiteSpace}
    IN  IF keep = {} THEN <<>>
        ELSE LET lo == CHOOSE i \in keep : \A j \in keep : i <= j
                 hi == CHOOSE i \in keep : \A j \in keep : j <= i
             IN  SubSeq(s, lo, hi)

NoAnswer == <<"N","o"," ","A","n","s","w","e","r">>

-----------------------------------------------------------------------------
(* Quiz data *)

quizData == <<
    [question |-> "Which planet is closest to the Sun?",
     options |-> << <<"V","e","n","u","s">>, <<"M","e","r","c","u","r","y">>,
                    <<"E","a","r","t","h">>, <<"M","a","r","s">> >>,
     correctAnswer |-> <<"M","e","r","c","u","r","y">>],
    [question |-> "Which data structure organizes items in a First-In, First-Out (FIFO) manner?",
     options |-> << <<"S","t","a","c","k">>, <<"Q","u","e","u","e">>,
                    <<"T","r","e","e">>, <<"G","r","a","p","h">> >>,
     correctAnswer |-> <<"Q","u","e","u","e">>],
    [question |-> "Which of the following is primarily used for structuring web pages?",
     options |-> << <<"P","y","t","h","o","n">>, <<"J","a","v","a">>,
                    <<"H","T","M","L">>, <<"C","+","+">> >>,
     correctAnswer |-> <<"H","T","M","L">>],
    [question |-> "Which chemical symbol stands for Gold?",
     options |-> << <<"A","u">>, <<"G","d">>, <<"A","g">>, <<"P","t">> >>,
     correctAnswer |-> <<"A","u">>],
    [question |-> "Which of these processes is not typically involved in refining petroleum?",
     options |-> << <<"F","r","a","c","t","i","o","n","a","l"," ",
                      "d","i","s","t","i","l","l","a","t","i","o","n">>,
                    <<"C","r","a","c","k","i","n","g">>,
                    <<"P","o","l","y","m","e","r","i","z","a","t","i","o","n">>,
                    <<"F","i","l","t","r","a","t","i","o","n">> >>,
     correctAnswer |-> <<"F","i","l","t","r","a","t","i","o","n">>],
    [question |-> "What is the value of 12 + 28?",
     options |-> <<>>, correctAnswer |-> <<"4","0">>],
    [question |-> "How many states are there in the United States?",
     options |-> <<>>, correctAnswer |-> <<"5","0">>],
    [question |-> "In which year was the Declaration of Independence signed?",
     options |-> <<>>, correctAnswer |-> <<"1","7","7","6">>],
    [question |-> "What is the value of pi rounded to the nearest integer?",
     options |-> <<>>, correctAnswer |-> <<"3">>],
    [question |-> "If a car travels at 60 mph for 2 hours, how many miles does it travel?",
     options |-> <<>>, correctAnswer |-> <<"1","2","0">>]
>>

\* quizData[i] of the source (0-based)
Question(i) == quizData[i + 1]

\* quizData[i].options is present (multiple-choice) or absent (free text)
HasOptions(i) == Question(i).options # <<>>

-----------------------------------------------------------------------------
(* Initial state: the useState initial values; nothing saved yet *)

Init ==
    /\ currentQuestion = 0
    /\ feedback = ""
    /\ answeredCorrectly = FALSE
    /\ score = 0
    /\ attempts = <<>>
    /\ currentAttempt = 0
    /\ timer = TimerStart
    /\ quizFinished = FALSE
    /\ textAnswer = <<>>
    /\ saves = <<>>
    /\ db = <<>>
    /\ saveCalls = 0
    /\ alerts = 0
    /\ errors = <<>>
    /\ userActions = 0

-----------------------------------------------------------------------------
(* The component *)

\* The timer effect has work pending for the committed render: its expiry
\* branch (timer = 0 on an open question).  Effects are flushed before the
\* next event is handled.
EffectsFlushed == ~(~quizFinished /\ ~answeredCorrectly /\ timer = 0)

\* SaveHistoryEffect without the test of quizFinished
SaveHistoryEffect_NoFinishedTest ==
    IF <<quizFinished', score', attempts'>> # <<quizFinished, score, attempts>>
    THEN /\ saves' = Append(saves, [history |-> [score |-> score',
                                                 totalQuestions |-> Len(quizData),
                                                 attempts |-> attempts'],
                                    pc |-> "openDB"])
         /\ saveCalls' = saveCalls + 1
    ELSE UNCHANGED <<saves, saveCalls>>

\* SaveHistoryEffect reading score and attempts of the render before
SaveHistoryEffect_StaleClosure ==
    IF /\ <<quizFinished', score', attempts'>> # <<quizFinished, score, attempts>>
       /\ quizFinished'
    THEN /\ saves' = Append(saves, [history |-> [score |-> score,
                                                 totalQuestions |-> Len(quizData),
                                                 attempts |-> attempts],
                                    pc |-> "openDB"])
         /\ saveCalls' = saveCalls + 1
    ELSE UNCHANGED <<saves, saveCalls>>

\* Save-history effect: runs after a render in which one of its dependencies
\* [quizFinished, score, attempts] changed; calls saveQuizHistory(history)
\* when quizFinished is true in that render.
SaveHistoryEffect ==
    IF /\ <<quizFinished', score', attempts'>> # <<quizFinished, score, attempts>>
       /\ quizFinished'
    THEN /\ saves' = Append(saves, [history |-> [score |-> score',
                                                 totalQuestions |-> Len(quizData),
                                                 attempts |-> attempts'],
                                    pc |-> "openDB"])
         /\ saveCalls' = saveCalls + 1
    ELSE UNCHANGED <<saves, saveCalls>>

\* isCorrect without trim()
isCorrect_NoTrim(answer, q) ==
    toLowerCase(answer) = toLowerCase(Question(q).correctAnswer)

\* givenAnswer === correctAnswer, both trimmed and lower-cased
isCorrect(answer, q) ==
    toLowerCase(trim(answer)) = toLowerCase(trim(Question(q).correctAnswer))

attemptRecord(answer, q, n) ==
    [question |-> Question(q).question,
     selectedAnswer |-> answer,
     isCorrect |-> isCorrect(answer, q),
     attemptNumber |-> n,
     questionIndex |-> q]

\* handleAnswerSelection without the early return on answeredCorrectly
handleAnswerSelection_NoGuard(answer) ==
    /\ currentAttempt' = currentAttempt + 1
    /\ attempts' = Append(attempts,
                          attemptRecord(answer, currentQuestion, currentAttempt + 1))
    /\ IF isCorrect(answer, currentQuestion)
       THEN /\ feedback' = "Correct!"
            /\ answeredCorrectly' = TRUE
            /\ score' = score + 1
       ELSE /\ feedback' = "Incorrect, try again!"
            /\ UNCHANGED <<answeredCorrectly, score>>

\* handleAnswerSelection putting the new record in front: [attemptRecord, ...prev]
handleAnswerSelection_Prepend(answer) ==
    IF answeredCorrectly
    THEN UNCHANGED <<currentAttempt, attempts, feedback, answeredCorrectly, score>>
    ELSE /\ currentAttempt' = currentAttempt + 1
         /\ attempts' = <<attemptRecord(answer, currentQuestion, currentAttempt + 1)>>
                        \o attempts
         /\ IF isCorrect(answer, currentQuestion)
            THEN /\ feedback' = "Correct!"
                 /\ answeredCorrectly' = TRUE
                 /\ score' = score + 1
            ELSE /\ feedback' = "Incorrect, try again!"
                 /\ UNCHANGED <<answeredCorrectly, score>>

\* handleAnswerSelection tagging the record with currentAttempt, not currentAttempt + 1
handleAnswerSelection_ZeroBased(answer) ==
    IF answeredCorrectly
    THEN UNCHANGED <<currentAttempt, attempts, feedback, answeredCorrectly, score>>
    ELSE /\ currentAttempt' = currentAttempt + 1
         /\ attempts' = Append(attempts,
                               attemptRecord(answer, currentQuestion, currentAttempt))
         /\ IF isCorrect(answer, currentQuestion)
            THEN /\ feedback' = "Correct!"
                 /\ answeredCorrectly' = TRUE
                 /\ score' = score + 1
            ELSE /\ feedback' = "Incorrect, try again!"
                 /\ UNCHANGED <<answeredCorrectly, score>>

\* handleAnswerSelection with setCurrentAttempt ahead of the early return
handleAnswerSelection_CountsFirst(answer) ==
    IF answeredCorrectly
    THEN /\ currentAttempt' = currentAttempt + 1
         /\ UNCHANGED <<attempts, feedback, answeredCorrectly, score>>
    ELSE /\ currentAttempt' = currentAttempt + 1
         /\ attempts' = Append(attempts,
                               attemptRecord(answer, currentQuestion, currentAttempt + 1))
         /\ IF isCorrect(answer, currentQuestion)
            THEN /\ feedback' = "Correct!"
                 /\ answeredCorrectly' = TRUE
                 /\ score' = score + 1
            ELSE /\ feedback' = "Incorrect, try again!"
                 /\ UNCHANGED <<answeredCorrectly, score>>

\* handleAnswerSelection(answer): the state updates of the handler
handleAnswerSelection(answer) ==
    IF answeredCorrectly
    THEN UNCHANGED <<currentAttempt, attempts, feedback, answeredCorrectly, score>>
    ELSE /\ currentAttempt' = currentAttempt + 1
         /\ attempts' = Append(attempts,
                               attemptRecord(answer, currentQuestion, currentAttempt + 1))
         /\ IF isCorrect(answer, currentQuestion)
            THEN /\ feedback' = "Correct!"
                 /\ answeredCorrectly' = TRUE
                 /\ score' = score + 1
            ELSE /\ feedback' = "Incorrect, try again!"
                 /\ UNCHANGED <<answeredCorrectly, score>>

\* handleNextQuestion incrementing the index on the last question as well
handleNextQuestion_AlwaysIncrement ==
    /\ currentAttempt' = 0
    /\ feedback' = ""
    /\ answeredCorrectly' = FALSE
    /\ timer' = TimerStart
    /\ textAnswer' = <<>>
    /\ currentQuestion' = currentQuestion + 1
    /\ IF currentQuestion + 1 < Len(quizData)
       THEN UNCHANGED quizFinished
       ELSE quizFinished' = TRUE

\* handleNextQuestion without setTimer(30)
handleNextQuestion_KeepTimer ==
    /\ currentAttempt' = 0
    /\ feedback' = ""
    /\ answeredCorrectly' = FALSE
    /\ timer' = timer
    /\ textAnswer' = <<>>
    /\ IF currentQuestion + 1 < Len(quizData)
       THEN /\ currentQuestion' = currentQuestion + 1
            /\ UNCHANGED quizFinished
       ELSE /\ quizFinished' = TRUE
            /\ UNCHANGED currentQuestion

\* handleNextQuestion without setCurrentAttempt(0)
handleNextQuestion_KeepAttemptCount ==
    /\ currentAttempt' = currentAttempt
    /\ feedback' = ""
    /\ answeredCorrectly' = FALSE
    /\ timer' = TimerStart
    /\ textAnswer' = <<>>
    /\ IF currentQuestion + 1 < Len(quizData)
       THEN /\ currentQuestion' = currentQuestion + 1
            /\ UNCHANGED quizFinished
       ELSE /\ quizFinished' = TRUE
            /\ UNCHANGED currentQuestion

\* handleNextQuestion(): the state updates of the handler
handleNextQuestion ==
    /\ currentAttempt' = 0
    /\ feedback' = ""
    /\ answeredCorrectly' = FALSE
    /\ timer' = TimerStart
    /\ textAnswer' = <<>>
    /\ IF currentQuestion + 1 < Len(quizData)
       THEN /\ currentQuestion' = currentQuestion + 1
            /\ UNCHANGED quizFinished
       ELSE /\ quizFinished' = TRUE
            /\ UNCHANGED currentQuestion

\* The questions on which the user answers, types or skips: the first
\* (multiple choice) and the last (free text); the questions between run out
\* on the timer
ActiveQuestions == {0, Len(quizData) - 1}

UserActive(q) == q \in ActiveQuestions

\* Submissions that reach past the early return, skips and restarts are what
\* MaxUserActions bounds
CountUserAction(effective) ==
    /\ effective => userActions < MaxUserActions /\ UserActive(currentQuestion)
    /\ userActions' = IF effective THEN userActions + 1 ELSE userActions

\* Click on an option of a multiple-choice question
ClickOption ==
    /\ ~quizFinished
    /\ EffectsFlushed
    /\ HasOptions(currentQuestion)
    /\ \E k \in 1..Len(Question(currentQuestion).options) :
          handleAnswerSelection(Question(currentQuestion).options[k])
    /\ CountUserAction(~answeredCorrectly)
    /\ UNCHANGED <<currentQuestion, timer, quizFinished, textAnswer>>
    /\ SaveHistoryEffect
    /\ UNCHANGED <<db, alerts, errors>>

\* Texts the user types into the free-text input of question q
TypedTexts(q) ==
    { <<>>, <<" ">>, <<"7">>, <<" ">> \o Question(q).correctAnswer \o <<" ">> }

\* onChange of the free-text input (disabled once answered correctly)
TypeText ==
    /\ ~quizFinished
    /\ EffectsFlushed
    /\ ~HasOptions(currentQuestion)
    /\ ~answeredCorrectly
    /\ UserActive(currentQuestion)
    /\ \E v \in TypedTexts(currentQuestion) :
          /\ v # textAnswer
          /\ textAnswer' = v
    /\ UNCHANGED <<currentQuestion, feedback, answeredCorrectly, score, attempts,
                   currentAttempt, timer, quizFinished>>
    /\ SaveHistoryEffect
    /\ UNCHANGED <<db, alerts, errors, userActions>>

\* SubmitAnswer with neither the disabled attribute nor the handler's test
\* for a blank input
SubmitAnswer_NoBlankCheck ==
    /\ ~quizFinished
    /\ EffectsFlushed
    /\ ~HasOptions(currentQuestion)
    /\ ~answeredCorrectly
    /\ handleAnswerSelection(textAnswer)
    /\ textAnswer' = <<>>
    /\ CountUserAction(TRUE)
    /\ UNCHANGED <<currentQuestion, timer, quizFinished>>
    /\ SaveHistoryEffect
    /\ UNCHANGED <<db, alerts, errors>>

\* Click on "Submit Answer" (disabled when answered correctly or blank)
SubmitAnswer ==
    /\ ~quizFinished
    /\ EffectsFlushed
    /\ ~HasOptions(currentQuestion)
    /\ ~(answeredCorrectly \/ trim(textAnswer) = <<>>)
    /\ IF trim(textAnswer) # <<>>
       THEN /\ handleAnswerSelection(textAnswer)
            /\ textAnswer' = <<>>
       ELSE UNCHANGED <<currentAttempt, attempts, feedback, answeredCorrectly,
                        score, textAnswer>>
    /\ CountUserAction(TRUE)
    /\ UNCHANGED <<currentQuestion, timer, quizFinished>>
    /\ SaveHistoryEffect
    /\ UNCHANGED <<db, alerts, errors>>

\* ClickNextOrSkip recording "No Answer" for a question skipped unattempted
ClickNextOrSkip_Records ==
    /\ ~quizFinished
    /\ EffectsFlushed
    /\ handleNextQuestion
    /\ CountUserAction(~answeredCorrectly)
    /\ attempts' = IF currentAttempt = 0
                   THEN Append(attempts, [question |-> Question(currentQuestion).question,
                                          selectedAnswer |-> NoAnswer,
                                          isCorrect |-> FALSE,
                                          attemptNumber |-> 1,
                                          questionIndex |-> currentQuestion])
                   ELSE attempts
    /\ UNCHANGED score
    /\ SaveHistoryEffect
    /\ UNCHANGED <<db, alerts, errors>>

\* Click on "Next" (answered correctly) or "Skip" (not yet)
ClickNextOrSkip ==
    /\ ~quizFinished
    /\ EffectsFlushed
    /\ handleNextQuestion
    /\ CountUserAction(~answeredCorrectly)
    /\ UNCHANGED <<score, attempts>>
    /\ SaveHistoryEffect
    /\ UNCHANGED <<db, alerts, errors>>

\* Tick without the test of answeredCorrectly
Tick_IgnoresAnswered ==
    /\ ~quizFinished
    /\ timer > 0
    /\ timer' = timer - 1
    /\ UNCHANGED <<currentQuestion, feedback, answeredCorrectly, score, attempts,
                   currentAttempt, quizFinished, textAnswer>>
    /\ SaveHistoryEffect
    /\ UNCHANGED <<db, alerts, errors, userActions>>

\* Tick that stops at 1
Tick_StopsAtOne ==
    /\ ~quizFinished /\ ~answeredCorrectly
    /\ timer > 1
    /\ timer' = timer - 1
    /\ UNCHANGED <<currentQuestion, feedback, answeredCorrectly, score, attempts,
                   currentAttempt, quizFinished, textAnswer>>
    /\ SaveHistoryEffect
    /\ UNCHANGED <<db, alerts, errors, userActions>>

\* Timer effect, branch timer > 0: the one-second timeout fires
Tick ==
    /\ ~quizFinished /\ ~answeredCorrectly
    /\ timer > 0
    /\ timer' = timer - 1
    /\ UNCHANGED <<currentQuestion, feedback, answeredCorrectly, score, attempts,
                   currentAttempt, quizFinished, textAnswer>>
    /\ SaveHistoryEffect
    /\ UNCHANGED <<db, alerts, errors, userActions>>

\* TimerExpired without the "No Answer" record
TimerExpired_NoRecord ==
    /\ ~quizFinished /\ ~answeredCorrectly
    /\ ~(timer > 0)
    /\ attempts' = attempts
    /\ handleNextQuestion
    /\ UNCHANGED score
    /\ SaveHistoryEffect
    /\ UNCHANGED <<db, alerts, errors, userActions>>

\* TimerExpired without the test currentAttempt === 0
TimerExpired_AlwaysRecords ==
    /\ ~quizFinished /\ ~answeredCorrectly
    /\ ~(timer > 0)
    /\ attempts' = Append(attempts, [question |-> Question(currentQuestion).question,
                                     selectedAnswer |-> NoAnswer,
                                     isCorrect |-> FALSE,
                                     attemptNumber |-> 1,
                                     questionIndex |-> currentQuestion])
    /\ handleNextQuestion
    /\ UNCHANGED score
    /\ SaveHistoryEffect
    /\ UNCHANGED <<db, alerts, errors, userActions>>

\* Timer effect, branch timer = 0: record "No Answer" if nothing was
\* attempted, then handleNextQuestion()
TimerExpired ==
    /\ ~quizFinished /\ ~answeredCorrectly
    /\ ~(timer > 0)
    /\ attempts' = IF currentAttempt = 0
                   THEN Append(attempts, [question |-> Question(currentQuestion).question,
                                          selectedAnswer |-> NoAnswer,
                                          isCorrect |-> FALSE,
                                          attemptNumber |-> 1,
                                          questionIndex |-> currentQuestion])
                   ELSE attempts
    /\ handleNextQuestion
    /\ UNCHANGED score
    /\ SaveHistoryEffect
    /\ UNCHANGED <<db, alerts, errors, userActions>>

\* restartQuiz without setScore(0)
restartQuiz_KeepScore ==
    /\ quizFinished
    /\ userActions < MaxUserActions
    /\ currentQuestion' = 0
    /\ score' = score
    /\ attempts' = <<>>
    /\ timer' = TimerStart
    /\ quizFinished' = FALSE
    /\ feedback' = ""
    /\ answeredCorrectly' = FALSE
    /\ currentAttempt' = 0
    /\ textAnswer' = <<>>
    /\ SaveHistoryEffect
    /\ userActions' = userActions + 1
    /\ UNCHANGED <<db, alerts, errors>>

\* restartQuiz without setQuizFinished(false)
restartQuiz_KeepFinished ==
    /\ quizFinished
    /\ userActions < MaxUserActions
    /\ currentQuestion' = 0
    /\ score' = 0
    /\ attempts' = <<>>
    /\ timer' = TimerStart
    /\ quizFinished' = quizFinished
    /\ feedback' = ""
    /\ answeredCorrectly' = FALSE
    /\ currentAttempt' = 0
    /\ textAnswer' = <<>>
    /\ SaveHistoryEffect
    /\ userActions' = userActions + 1
    /\ UNCHANGED <<db, alerts, errors>>

\* restartQuiz that waits until no saveQuizHistory call is in flight
restartQuiz_AwaitsWrite ==
    /\ quizFinished
    /\ saves = <<>>
    /\ userActions < MaxUserActions
    /\ currentQuestion' = 0
    /\ score' = 0
    /\ attempts' = <<>>
    /\ timer' = TimerStart
    /\ quizFinished' = FALSE
    /\ feedback' = ""
    /\ answeredCorrectly' = FALSE
    /\ currentAttempt' = 0
    /\ textAnswer' = <<>>
    /\ SaveHistoryEffect
    /\ userActions' = userActions + 1
    /\ UNCHANGED <<db, alerts, errors>>

\* Click on "Retry Quiz" (summary screen)
restartQuiz ==
    /\ quizFinished
    /\ userActions < MaxUserActions
    /\ currentQuestion' = 0
    /\ score' = 0
    /\ attempts' = <<>>
    /\ timer' = TimerStart
    /\ quizFinished' = FALSE
    /\ feedback' = ""
    /\ answeredCorrectly' = FALSE
    /\ currentAttempt' = 0
    /\ textAnswer' = <<>>
    /\ SaveHistoryEffect
    /\ userActions' = userActions + 1
    /\ UNCHANGED <<db, alerts, errors>>

-----------------------------------------------------------------------------
(* saveQuizHistory(history) and openDB(): the callbacks of a call in flight *)

RemoveAt(s, i) == SubSeq(s, 1, i - 1) \o SubSeq(s, i + 1, Len(s))

\* request.onsuccess: openDB resolves; the transaction is opened and
\* store.add(history) is requested
OpenDBSuccess ==
    /\ \E i \in 1..Len(saves) :
          /\ saves[i].pc = "openDB"
          /\ saves' = [saves EXCEPT ![i].pc = "transaction"]
    /\ UNCHANGED <<session, db, saveCalls, alerts, errors, userActions>>

\* OpenDBError whose catch block calls saveQuizHistory(history) again
OpenDBError_Retry ==
    /\ \E i \in 1..Len(saves) :
          /\ saves[i].pc = "openDB"
          /\ saves' = Append(RemoveAt(saves, i), saves[i])
    /\ errors' = Append(errors, "Error in saveQuizHistory:")
    /\ saveCalls' = saveCalls + 1
    /\ UNCHANGED <<session, db, alerts, userActions>>

\* request.onerror: openDB rejects; caught and logged in saveQuizHistory
OpenDBError ==
    /\ \E i \in 1..Len(saves) :
          /\ saves[i].pc = "openDB"
          /\ saves' = RemoveAt(saves, i)
    /\ errors' = Append(errors, "Error in saveQuizHistory:")
    /\ UNCHANGED <<session, db, saveCalls, alerts, userActions>>

\* transaction.oncomplete: the record is in the store; Swal.fire(success)
TransactionComplete ==
    /\ \E i \in 1..Len(saves) :
          /\ saves[i].pc = "transaction"
          /\ db' = Append(db, saves[i].history)
          /\ saves' = RemoveAt(saves, i)
    /\ alerts' = alerts + 1
    /\ UNCHANGED <<session, saveCalls, errors, userActions>>

\* transaction.onerror: the add is rolled back; logged
TransactionError ==
    /\ \E i \in 1..Len(saves) :
          /\ saves[i].pc = "transaction"
          /\ saves' = RemoveAt(saves, i)
    /\ errors' = Append(errors, "Error saving quiz history: ")
    /\ UNCHANGED <<session, db, saveCalls, alerts, userActions>>

-----------------------------------------------------------------------------

Next ==
    \/ ClickOption
    \/ TypeText
    \/ SubmitAnswer
    \/ ClickNextOrSkip
    \/ Tick
    \/ TimerExpired
    \/ restartQuiz
    \/ OpenDBSuccess
    \/ OpenDBError
    \/ TransactionComplete
    \/ TransactionError

Spec == Init /\ [][Next]_vars

-----------------------------------------------------------------------------
(* The answer check on its own: handleAnswerSelection applied to any value, *)
(* on any question.  The value handed to the handler is staged in the      *)
(* input buffer.                                                           *)

MaxJudgeAttempts == 2   \* submissions on the question

UpperChar(c) ==
    IF \E i \in 1..Len(LowerChars) : LowerChars[i] = c
    THEN UpperChars[CHOOSE i \in 1..Len(LowerChars) : LowerChars[i] = c]
    ELSE c

JudgeInputs(q) ==
    LET c == Question(q).correctAnswer
    IN  { c,
          <<" ">> \o c \o <<" ">>,
          <<"\t", " ">> \o c \o <<"\n">>,
          [i \in 1..Len(c) |-> UpperChar(c[i])],
          <<" ">> \o [i \in 1..Len(c) |-> LowerChar(c[i])],
          SubSeq(c, 1, Len(c) - 1),
          c \o c,
          <<c[1], " ">> \o SubSeq(c, 2, Len(c)),
          c \o <<" ", "x">>,
          <<"V","e","n","u","s">>,
          <<" ">>,
          NoAnswer }

JudgeInit ==
    /\ currentQuestion \in 0..(Len(quizData) - 1)
    /\ feedback = ""
    /\ answeredCorrectly = FALSE
    /\ score = 0
    /\ attempts = <<>>
    /\ currentAttempt = 0
    /\ timer = TimerStart
    /\ quizFinished = FALSE
    /\ textAnswer = <<>>
    /\ saves = <<>>
    /\ db = <<>>
    /\ saveCalls = 0
    /\ alerts = 0
    /\ errors = <<>>
    /\ userActions = 0

JudgeStage ==
    /\ textAnswer = <<>>
    /\ ~answeredCorrectly
    /\ currentAttempt < MaxJudgeAttempts
    /\ textAnswer' \in JudgeInputs(currentQuestion)
    /\ UNCHANGED <<currentQuestion, feedback, answeredCorrectly, score, attempts,
                   currentAttempt, timer, quizFinished>>
    /\ UNCHANGED <<store, userActions>>

JudgeSelect ==
    /\ textAnswer # <<>>
    /\ handleAnswerSelection(textAnswer)
    /\ textAnswer' = <<>>
    /\ UNCHANGED <<currentQuestion, timer, quizFinished>>
    /\ SaveHistoryEffect
    /\ UNCHANGED <<db, alerts, errors, userActions>>

JudgeNext == JudgeStage \/ JudgeSelect

SpecJudge == JudgeInit /\ [][JudgeNext]_vars

-----------------------------------------------------------------------------
(* Properties *)

Venus == <<"V","e","n","u","s">>
Mercury == <<"M","e","r","c","u","r","y">>

LastQuestion == Len(quizData) - 1

\* The record the timer effect writes for question q
SyntheticRecord(q) ==
    [question |-> Question(q).question, selectedAnswer |-> NoAnswer,
     isCorrect |-> FALSE, attemptNumber |-> 1, questionIndex |-> q]

\* The step makes finished become true
Finishing == ~quizFinished /\ quizFinished'

\* The step is a restart
Restarting == quizFinished /\ ~quizFinished'

CorrectRecords(log) == {i \in 1..Len(log) : log[i].isCorrect}

\* C1: score is the number of distinct questionIndex values that have a
\* record with isCorrect = true in the log, and no questionIndex has more
\* than one such record.
C1_ScoreCountsCorrectQuestions ==
    /\ score = Cardinality({attempts[i].questionIndex : i \in CorrectRecords(attempts)})
    /\ \A i, j \in CorrectRecords(attempts) :
          attempts[i].questionIndex = attempts[j].questionIndex => i = j

C1_Witness ==
    /\ score = 2
    /\ \E i \in 1..Len(attempts) : ~attempts[i].isCorrect

\* C2: a step calls saveQuizHistory exactly once when it makes finished
\* become true, and not at all otherwise; so the number of calls is the
\* number of transitions into Finished.
C2_OneSavePerFinish ==
    [][/\ Finishing => saveCalls' = saveCalls + 1 /\ Len(saves') = Len(saves) + 1
       /\ ~Finishing => saveCalls' = saveCalls /\ Len(saves') <= Len(saves)]_vars

C2_Witness ==
    /\ saveCalls = 2
    /\ quizFinished
    /\ Len(saves) + Len(db) + Len(errors) = 2

\* C3: the history handed to saveQuizHistory on finishing has
\* totalQuestions = 10, the score and the complete log of the finishing
\* render (with the "No Answer" record when the last question timed out with
\* zero attempts); no later step changes a history in flight, and the record
\* that reaches the store is that history.
C3_HistoryIsFinishSnapshot ==
    [][/\ Finishing =>
            /\ Len(saves') = Len(saves) + 1
            /\ saves'[Len(saves')].history =
                  [score |-> score', totalQuestions |-> 10, attempts |-> attempts']
            /\ score' = score
            /\ attempts' = IF timer = 0 /\ currentAttempt = 0
                           THEN Append(attempts, SyntheticRecord(LastQuestion))
                           ELSE attempts
       /\ Len(saves') >= Len(saves) =>
            /\ \A i \in 1..Len(saves) : saves'[i].history = saves[i].history
            /\ db' = db
       /\ Len(saves') < Len(saves) =>
            \E i \in 1..Len(saves) :
               /\ saves' = RemoveAt(saves, i)
               /\ db' = db \/ db' = Append(db, saves[i].history)]_vars

C3_Witness ==
    /\ ~quizFinished
    /\ score = 1
    /\ \E i \in 1..Len(saves) :
          LET h == saves[i].history
          IN  /\ h.score = 0
              /\ Len(h.attempts) = Len(quizData)
              /\ h.attempts[Len(h.attempts)] = SyntheticRecord(LastQuestion)

\* C4: when the timer effect sees timer = 0 on an open question with no
\* attempt, the step that changes the session appends exactly the record
\* {"No Answer", false, 1, current index}, keeps score, and moves to the next
\* question, or finishes on the last one.
C4_ExpiryWithoutAttempt ==
    [][(/\ ~quizFinished /\ ~answeredCorrectly
        /\ timer = 0 /\ currentAttempt = 0
        /\ session' # session)
       => /\ attempts' = Append(attempts,
                [question |-> Question(currentQuestion).question,
                 selectedAnswer |-> NoAnswer, isCorrect |-> FALSE,
                 attemptNumber |-> 1, questionIndex |-> currentQuestion])
          /\ score' = score
          /\ IF currentQuestion = LastQuestion
             THEN quizFinished' /\ currentQuestion' = currentQuestion
             ELSE ~quizFinished' /\ currentQuestion' = currentQuestion + 1]_vars

C4_Witness ==
    /\ attempts = <<SyntheticRecord(0)>>
    /\ currentQuestion = 1
    /\ score = 0
    /\ ~quizFinished

\* C5: between restarts every step leaves the log alone or appends one
\* record at its end; and the questionIndex values of the log never decrease
\* in log order.
C5_LogAppendOnly ==
    /\ [](\A i \in 1..(Len(attempts) - 1) :
             attempts[i].questionIndex <= attempts[i + 1].questionIndex)
    /\ [][\/ Restarting
          \/ attempts' = attempts
          \/ /\ Len(attempts') = Len(attempts) + 1
             /\ SubSeq(attempts', 1, Len(attempts)) = attempts]_vars

C5_Witness ==
    /\ \E i \in 1..(Len(attempts) - 1) :
          /\ attempts[i].questionIndex = attempts[i + 1].questionIndex
          /\ attempts[i].selectedAnswer # NoAnswer
    /\ \E i \in 1..(Len(attempts) - 1) :
          /\ attempts[i].questionIndex < attempts[i + 1].questionIndex
          /\ attempts[i].selectedAnswer = NoAnswer

\* C6: a restart leaves exactly the initial session: question 0, score 0,
\* empty log, attempt count 0, timer 30, not finished, not answered, no
\* feedback, empty input buffer.
C6_RestartYieldsInitialSession ==
    [][Restarting =>
          /\ currentQuestion' = 0
          /\ score' = 0
          /\ attempts' = <<>>
          /\ currentAttempt' = 0
          /\ timer' = 30
          /\ quizFinished' = FALSE
          /\ answeredCorrectly' = FALSE
          /\ feedback' = ""
          /\ textAnswer' = <<>>]_vars

C6_Witness ==
    /\ currentQuestion = 0 /\ score = 0 /\ attempts = <<>> /\ timer = 30
    /\ ~quizFinished
    /\ \E i \in 1..Len(db) : db[i].score = 1 /\ Len(db[i].attempts) = Len(quizData)

\* C7: the restart step calls saveQuizHistory not at all and leaves the
\* store, the calls in flight, the confirmations and the error log as they are.
C7_RestartSavesNothing ==
    [][restartQuiz => UNCHANGED <<saves, db, saveCalls, alerts, errors>>]_vars

C7_Witness ==
    /\ ~quizFinished
    /\ saveCalls = 1
    /\ Len(saves) = 1
    /\ attempts = <<>>
    /\ saves[1].history.attempts # <<>>

\* C8: from the initial state, "Venus" and then "Mercury" on the first
\* question give the log [{1, false}, {2, true}] and score 1, and the next
\* question is index 1.
C8_Scenario == Len(attempts) >= 2
               /\ attempts[1].questionIndex = 0 /\ attempts[1].selectedAnswer = Venus
               /\ attempts[2].questionIndex = 0 /\ attempts[2].selectedAnswer = Mercury

C8_VenusThenMercury ==
    /\ [](C8_Scenario =>
            /\ attempts[1].attemptNumber = 1 /\ attempts[1].isCorrect = FALSE
            /\ attempts[2].attemptNumber = 2 /\ attempts[2].isCorrect = TRUE
            /\ (currentQuestion = 0 => /\ attempts = SubSeq(attempts, 1, 2)
                                       /\ score = 1
                                       /\ answeredCorrectly))
    /\ [][(C8_Scenario /\ currentQuestion = 0 /\ session' # session)
          => /\ currentQuestion' = 1
             /\ score' = 1
             /\ attempts' = attempts]_vars

C8_Witness ==
    /\ C8_Scenario
    /\ Len(attempts) = 2
    /\ currentQuestion = 1
    /\ score = 1

\* C9: an answer is judged correct exactly when it is the question's
\* correctAnswer up to letter case, with nothing but white space around it;
\* " Mercury " and "MERCURY" are correct for the first question; and the
\* record keeps the answer as it was given.
SameLetter(x, y) ==
    \/ x = y
    \/ \E n \in 1..Len(UpperChars) : {x, y} = {UpperChars[n], LowerChars[n]}

\* a is c up to letter case, between l and r white-space characters
\* (no correctAnswer of quizData starts or ends with white space)
MatchesUpToCaseAndPadding(a, c) ==
    \E l, r \in 0..Len(a) :
       /\ l + Len(c) + r = Len(a)
       /\ \A k \in 1..l : a[k] \in WhiteSpace
       /\ \A k \in (Len(a) - r + 1)..Len(a) : a[k] \in WhiteSpace
       /\ \A k \in 1..Len(c) : SameLetter(a[l + k], c[k])

C9_JudgedByNormalizedEquality ==
    /\ [](\A i \in 1..Len(attempts) :
             LET rec == attempts[i]
             IN  /\ rec.isCorrect =
                       MatchesUpToCaseAndPadding(rec.selectedAnswer,
                           Question(rec.questionIndex).correctAnswer)
                 /\ (rec.questionIndex = 0 /\ rec.selectedAnswer
                         \in {<<" ">> \o Mercury \o <<" ">>,
                              <<"M","E","R","C","U","R","Y">>})
                    => rec.isCorrect)
    /\ [][attempts' # attempts =>
             attempts'[Len(attempts')].selectedAnswer = textAnswer]_vars

C9_Witness ==
    /\ Len(attempts) = 2
    /\ attempts[1].selectedAnswer = <<"M","e","r","c","u","r">>
    /\ ~attempts[1].isCorrect
    /\ attempts[2].selectedAnswer = <<" ">> \o Mercury \o <<" ">>
    /\ attempts[2].isCorrect
    /\ score = 1

\* C10: a failed write (openDB rejects, or the transaction errors) is logged
\* and nothing else: the session is unchanged, the call is over and is not
\* made again, and no confirmation is raised; a confirmation is raised only
\* by a write whose transaction completed.
C10_FailedWriteOnlyLogged ==
    /\ [](alerts = Len(db))
    /\ [][/\ errors' # errors =>
               /\ Len(errors') = Len(errors) + 1
               /\ session' = session
               /\ saveCalls' = saveCalls
               /\ alerts' = alerts
               /\ db' = db
               /\ \E i \in 1..Len(saves) : saves' = RemoveAt(saves, i)
          /\ alerts' # alerts =>
               /\ alerts' = alerts + 1
               /\ errors' = errors
               /\ \E i \in 1..Len(saves) :
                     /\ saves[i].pc = "transaction"
                     /\ db' = Append(db, saves[i].history)]_vars

C10_Witness ==
    /\ quizFinished
    /\ score = 2
    /\ saves = <<>>
    /\ db = <<>>
    /\ alerts = 0
    /\ errors = <<"Error saving quiz history: ">>

\* C11: the write never blocks the engine.  In the Finished state restart is
\* enabled whatever the state of the write (in flight, stored, failed), every
\* engine event is enabled or not by the session alone, and no engine step
\* touches the store, the confirmations or the error log.
HasBudget == userActions < MaxUserActions

C11_WriteNeverBlocksEngine ==
    /\ [](/\ (quizFinished /\ HasBudget) => ENABLED restartQuiz
          /\ (ENABLED Tick) = (~quizFinished /\ ~answeredCorrectly /\ timer > 0)
          /\ (ENABLED TimerExpired) = (~quizFinished /\ ~answeredCorrectly /\ timer = 0)
          /\ (ENABLED ClickNextOrSkip) =
                (/\ ~quizFinished /\ EffectsFlushed
                 /\ answeredCorrectly \/ (HasBudget /\ UserActive(currentQuestion))))
    /\ [][session' # session =>
             /\ db' = db /\ alerts' = alerts /\ errors' = errors
             /\ \A i \in 1..Len(saves) : saves'[i] = saves[i]]_vars

C11_Witness ==
    /\ quizFinished
    /\ HasBudget
    /\ errors # <<>>
    /\ Len(saves) = 1
    /\ saves[1].pc = "transaction"

\* C12 as claimed: every advance, the finishing one included, increases
\* currentQuestion by exactly 1.
C12_EveryAdvanceIncrements ==
    [][(ClickNextOrSkip \/ TimerExpired) => currentQuestion' = currentQuestion + 1]_vars

\* C12 (amended): currentQuestion is within [0, questionCount - 1] in every
\* reachable state; an advance that does not finish the session increases it
\* by exactly 1, and the finishing advance leaves it at the last valid index,
\* so it never equals questionCount.
C12_IndexInRangeAndStepsByOne ==
    /\ [](currentQuestion \in 0..(Len(quizData) - 1))
    /\ [][(ClickNextOrSkip \/ TimerExpired) =>
             IF currentQuestion = Len(quizData) - 1
             THEN quizFinished' /\ currentQuestion' = currentQuestion
             ELSE ~quizFinished' /\ currentQuestion' = currentQuestion + 1]_vars

C12_Witness ==
    /\ quizFinished
    /\ currentQuestion = Len(quizData) - 1
    /\ userActions = 1
    /\ Len(attempts) = Len(quizData) - 1

\* C13: while the countdown is above 0 the user's advance is enabled in every
\* InProgress state, with zero attempts too, and appends no record; a
\* "No Answer" record is appended only by timer expiry with zero attempts; a
\* question skipped with zero attempts has no record in the log.
C13_SkipAppendsNothing ==
    /\ [](/\ ~quizFinished /\ timer > 0
          /\ answeredCorrectly \/ (HasBudget /\ UserActive(currentQuestion))
          => ENABLED ClickNextOrSkip)
    /\ [][/\ ClickNextOrSkip =>
               /\ attempts' = attempts
               /\ currentAttempt = 0 =>
                     \A i \in 1..Len(attempts') :
                        attempts'[i].questionIndex # currentQuestion
          /\ (/\ Len(attempts') = Len(attempts) + 1
              /\ attempts'[Len(attempts')].selectedAnswer = NoAnswer)
             => timer = 0 /\ currentAttempt = 0 /\ ~answeredCorrectly]_vars

C13_Witness ==
    /\ currentQuestion = 1
    /\ attempts = <<>>
    /\ userActions = 1
    /\ timer < TimerStart

\* C14: timer is an integer in [0, 30]; a step changes it only by a decrement
\* of exactly 1 or by a reset to 30; after every question transition (user's
\* advance or timer expiry, the finishing one included) and after restart,
\* timer = 30 and currentAttempt = 0.
C14_TimerRange ==
    /\ [](timer \in 0..30)
    /\ [][/\ timer' # timer => timer' = timer - 1 \/ timer' = 30
          /\ (\/ currentQuestion' # currentQuestion
              \/ quizFinished' # quizFinished
              \/ ClickNextOrSkip \/ TimerExpired \/ restartQuiz)
             => timer' = 30 /\ currentAttempt' = 0]_vars

C14_Witness ==
    /\ currentQuestion = 1
    /\ timer = 30
    /\ currentAttempt = 0
    /\ Len(attempts) = 2
    /\ attempts[2].questionIndex = 0
    /\ ~attempts[2].isCorrect

\* C15: a submission on a question already answered correctly changes
\* nothing: score, log, attempt count, index, timer and feedback stay, so
\* score cannot be incremented twice for the question.  (The option items
\* stay clickable; the Submit button of a free-text question is disabled.)
C15_SubmitAfterCorrectIsNoOp ==
    /\ [](/\ (answeredCorrectly /\ HasOptions(currentQuestion)) => ENABLED ClickOption
          /\ answeredCorrectly => ~ENABLED SubmitAnswer)
    /\ [][(answeredCorrectly /\ (ClickOption \/ SubmitAnswer)) =>
             UNCHANGED <<score, attempts, currentAttempt, currentQuestion,
                         timer, feedback, answeredCorrectly>>]_vars

C15_Witness ==
    /\ answeredCorrectly
    /\ currentQuestion = 0
    /\ score = 1
    /\ currentAttempt = 2
    /\ feedback = "Correct!"

\* C16: once the question is answered correctly, or the session is finished,
\* neither branch of the timer effect runs: timer is frozen and the session
\* changes only by the user's advance (Next), respectively by restart.
C16_TimerStopsWhenAnsweredOrFinished ==
    /\ []((answeredCorrectly \/ quizFinished) =>
             ~ENABLED Tick /\ ~ENABLED TimerExpired)
    /\ [][/\ (answeredCorrectly /\ session' # session) =>
               /\ ClickNextOrSkip
               /\ attempts' = attempts /\ score' = score
          /\ (quizFinished /\ session' # session) => restartQuiz
          /\ ((answeredCorrectly \/ quizFinished) /\ currentQuestion' = currentQuestion
                /\ quizFinished' = quizFinished)
             => timer' = timer]_vars

C16_Witness ==
    /\ answeredCorrectly
    /\ ~quizFinished
    /\ timer = 7
    /\ currentQuestion = Len(quizData) - 1

\* C17: when the timer effect sees timer = 0 on an open question with at
\* least one attempt, the step that changes the session appends no record,
\* keeps score, and moves to the next question, or finishes on the last one:
\* the changes of a skip.
C17_ExpiryAfterAttempts ==
    [][(/\ ~quizFinished /\ ~answeredCorrectly
        /\ timer = 0 /\ currentAttempt > 0
        /\ session' # session)
       => /\ attempts' = attempts
          /\ score' = score
          /\ currentAttempt' = 0 /\ timer' = 30 /\ feedback' = ""
          /\ textAnswer' = <<>> /\ answeredCorrectly' = FALSE
          /\ IF currentQuestion = Len(quizData) - 1
             THEN quizFinished' /\ currentQuestion' = currentQuestion
             ELSE ~quizFinished' /\ currentQuestion' = currentQuestion + 1]_vars

C17_Witness ==
    /\ currentQuestion = 1
    /\ Len(attempts) = 1
    /\ attempts[1].selectedAnswer = Venus
    /\ attempts[1].questionIndex = 0
    /\ userActions = 1

\* C18: a blank free-text input (empty or white space only) cannot be
\* submitted: the Submit button is not enabled, and every Submit step has a
\* non-blank input, appends the record of that input and adds 1 to the
\* attempt count.
C18_BlankIsNotSubmitted ==
    /\ [](trim(textAnswer) = <<>> => ~ENABLED SubmitAnswer)
    /\ [][SubmitAnswer =>
             /\ trim(textAnswer) # <<>>
             /\ currentAttempt' = currentAttempt + 1
             /\ attempts' = Append(attempts, attempts'[Len(attempts')])
             /\ attempts'[Len(attempts')].selectedAnswer = textAnswer
             /\ trim(attempts'[Len(attempts')].selectedAnswer) # <<>>]_vars

C18_Witness ==
    /\ textAnswer = <<" ">>
    /\ ~quizFinished
    /\ ~answeredCorrectly
    /\ currentAttempt = 1
    /\ HasBudget
    /\ timer > 0

\* C19: while in progress, currentAttempt is the number of records of the
\* current question; the records of each question carry attemptNumber
\* 1, 2, ..., k in log order; a correct record is the last of its question.
RecordsOf(q) == {i \in 1..Len(attempts) : attempts[i].questionIndex = q}

C19_AttemptNumbering ==
    /\ ~quizFinished => currentAttempt = Cardinality(RecordsOf(currentQuestion))
    /\ \A i \in 1..Len(attempts) :
          /\ attempts[i].attemptNumber =
                Cardinality({j \in RecordsOf(attempts[i].questionIndex) : j <= i})
          /\ attempts[i].isCorrect =>
                \A j \in RecordsOf(attempts[i].questionIndex) : j <= i

C19_Witness ==
    /\ ~quizFinished
    /\ currentAttempt = 2
    /\ currentQuestion = Len(quizData) - 1
    /\ attempts[Len(attempts)].isCorrect
    /\ \E i \in 1..Len(attempts) : attempts[i].selectedAnswer = NoAnswer

-----------------------------------------------------------------------------
(* The component under fairness of the timer: a scheduled one-second       *)
(* timeout fires, and the timer effect of a committed render runs.  The    *)
(* callbacks of the IndexedDB requests set no state of the component and   *)
(* are left out: the calls stay in flight.                                 *)

NextFair ==
    \/ ClickOption
    \/ TypeText
    \/ SubmitAnswer
    \/ ClickNextOrSkip
    \/ Tick
    \/ TimerExpired
    \/ restartQuiz

SpecFair == Init /\ [][NextFair]_vars /\ WF_vars(Tick) /\ WF_vars(TimerExpired)

\* The log of a session nobody touched: one "No Answer" record per question
UntouchedLog == [i \in 1..Len(quizData) |-> SyntheticRecord(i - 1)]

\* C20: with the tick weakly fair, a session that gets no user input ends
\* Finished with exactly one "No Answer" record per question, in order, and
\* score 0; and an open question that is not answered correctly is left in
\* the end (or gets answered) whatever the user does.
C20_TimerDrivesToFinish ==
    /\ <>(\/ userActions > 0
          \/ textAnswer # <<>>
          \/ quizFinished /\ attempts = UntouchedLog /\ score = 0)
    /\ \A q \in 0..(Len(quizData) - 1) :
          (~quizFinished /\ ~answeredCorrectly /\ currentQuestion = q)
             ~> (quizFinished \/ answeredCorrectly \/ currentQuestion # q)

C20_Witness ==
    /\ quizFinished
    /\ userActions = 0
    /\ attempts = UntouchedLog
    /\ Len(attempts) = 10
    /\ score = 0

====
